---- MODULE Spec2Model ----
(***************************************************************************)
(* Real-estate cluster dashboard: the map page (src/app/page.tsx), its map *)
(* component (SimpleMapComponent) and the cluster-analysis page, modelled  *)
(* as state machines over React state, refs and pending effects.           *)
(*                                                                         *)
(* Text is a sequence of one-character strings.  Numbers are whole: the    *)
(* alphabet of the modelled cells has digits, "-", " " and letters, and no *)
(* "." or exponent, so parseFloat and Number are modelled on integers.     *)
(***************************************************************************)
EXTENDS Integers, Sequences, FiniteSets, TLC

VARIABLES
    \* ---- map page (RealEstateMap) ----
    properties,          \* useState<PropertyData[]>
    filteredProperties,  \* useState<PropertyData[]>
    selectedProperty,    \* useState<PropertyData | null>
    loading,             \* useState(true)
    filters,             \* useState({cluster, minPrice, maxPrice, minBedrooms})
    filterEffectPending, \* useEffect(applyFilters, [properties, filters]) is scheduled
    loadPc,              \* position of the load in flight
    loadFile,            \* the file whose text was given to the parser last
    crashed,             \* an effect threw and React removed the whole tree
    \* ---- SimpleMapComponent ----
    mcMounted,           \* the component is in the tree
    initPc,              \* position of initMap of the mounted instance
    map,                 \* useState(null): the map instance held in state
    leaflet,             \* useState(null): window.L once imported
    mapRef,              \* useRef(null)
    clusterGroupRef,     \* useRef(null)
    mapLayers,           \* marker groups that are on the map
    markerEffectPending, \* the marker effect is scheduled
    orphanInitPc,        \* position of an initMap whose instance has unmounted
    orphanMap,           \* the element with id "map" holds a map that such an
                         \* initMap created, which no cleanup removes
    \* ---- ClusterAnalysisPage ----
    analysisPage,        \* which of the two page sources is running
    data,                \* useState<any[]>([])
    analysisLoading,     \* useState(true)
    analysisPc,          \* position of the fetch on mount
    analysisFile,        \* the text the fetch resolved with
    charts               \* the chart inputs computed by the last render

pageVars == <<properties, filteredProperties, selectedProperty, loading, filters,
              filterEffectPending, loadPc, loadFile, crashed>>
mcVars == <<mcMounted, initPc, map, leaflet, mapRef, clusterGroupRef, mapLayers,
            markerEffectPending, orphanInitPc, orphanMap>>
analysisVars == <<analysisPage, data, analysisLoading, analysisPc, analysisFile, charts>>
vars == <<pageVars, mcVars, analysisVars>>

----------------------------------------------------------------------------
(* Bounds *)

MaxRows == 2          \* rows of a CSV file loaded by the map page
MaxAnalysisRows == 3  \* rows of the CSV file loaded by the analysis page

----------------------------------------------------------------------------
(* JavaScript values *)

Num(n) == [t |-> "number", n |-> n, s |-> <<>>]
NaN == [t |-> "NaN", n |-> 0, s |-> <<>>]
Str(s) == [t |-> "string", n |-> 0, s |-> s]
Bool(b) == [t |-> "boolean", n |-> IF b THEN 1 ELSE 0, s |-> <<>>]
Null == [t |-> "null", n |-> 0, s |-> <<>>]
Undefined == [t |-> "undefined", n |-> 0, s |-> <<>>]

IsNaN(v) == v.t = "NaN"
IsNumber(v) == v.t = "number"

\* a === b
StrictEq(a, b) ==
    /\ a.t = b.t
    /\ a.t # "NaN"
    /\ a.n = b.n
    /\ a.s = b.s

IsDigit(c) == c \in {"0", "1", "2", "3", "4", "5", "6", "7", "8", "9"}

DigitVal(c) ==
    CASE c = "0" -> 0 [] c = "1" -> 1 [] c = "2" -> 2 [] c = "3" -> 3
      [] c = "4" -> 4 [] c = "5" -> 5 [] c = "6" -> 6 [] c = "7" -> 7
      [] c = "8" -> 8 [] c = "9" -> 9

RECURSIVE SkipSpace(_, _)
SkipSpace(s, i) ==
    IF i <= Len(s) /\ s[i] = " " THEN SkipSpace(s, i + 1) ELSE i

RECURSIVE ScanDigits(_, _, _)
ScanDigits(s, i, acc) ==
    IF i <= Len(s) /\ IsDigit(s[i])
    THEN ScanDigits(s, i + 1, acc * 10 + DigitVal(s[i]))
    ELSE [n |-> acc, next |-> i]

\* The longest numeric prefix of s after leading white space: an optional
\* sign and at least one digit.  [ok, n, next, plus]
NumericPrefix(s) ==
    LET i == SkipSpace(s, 1)
        signed == i <= Len(s) /\ s[i] \in {"-", "+"}
        neg == i <= Len(s) /\ s[i] = "-"
        j == IF signed THEN i + 1 ELSE i
        d == ScanDigits(s, j, 0)
    IN [ok |-> d.next > j, n |-> IF neg THEN 0 - d.n ELSE d.n, next |-> d.next,
        plus |-> signed /\ ~neg]

\* Number.parseFloat(text): the numeric prefix, NaN when there is none.
ParseFloat(s) ==
    LET p == NumericPrefix(s) IN IF p.ok THEN Num(p.n) ELSE NaN

\* Number.parseInt(text): the integer prefix, NaN when there is none.
ParseInt(s) ==
    LET p == NumericPrefix(s) IN IF p.ok THEN Num(p.n) ELSE NaN

\* The whole text is a number, white space around it allowed.
WholeNumber(s) ==
    LET p == NumericPrefix(s)
    IN p.ok /\ SkipSpace(s, p.next) = Len(s) + 1

\* Number(v): JavaScript ToNumber.
Number(v) ==
    CASE v.t = "number" -> v
      [] v.t = "NaN" -> NaN
      [] v.t = "null" -> Num(0)
      [] v.t = "undefined" -> NaN
      [] v.t = "boolean" -> Num(v.n)
      [] v.t = "string" ->
            IF SkipSpace(v.s, 1) = Len(v.s) + 1 THEN Num(0)
            ELSE IF WholeNumber(v.s) THEN Num(NumericPrefix(v.s).n)
            ELSE NaN

\* x || y on a number x: NaN and 0 are falsy.
OrElse(x, y) == IF IsNaN(x) \/ (IsNumber(x) /\ x.n = 0) THEN y ELSE x

GreaterEqReversed(a, b) ==
    LET x == Number(a) y == Number(b)
    IN IsNumber(x) /\ IsNumber(y) /\ x.n <= y.n

\* a >= b and a <= b on values: false when either side is not a number.
GreaterEq(a, b) ==
    LET x == Number(a) y == Number(b)
    IN IsNumber(x) /\ IsNumber(y) /\ x.n >= y.n

LessEq(a, b) ==
    LET x == Number(a) y == Number(b)
    IN IsNumber(x) /\ IsNumber(y) /\ x.n <= y.n

----------------------------------------------------------------------------
(* CSV files: a header (the columns the file has) and rows of cell texts *)

Columns == {"name", "url", "bedrooms", "bathrooms", "floors", "land_area",
            "building_area", "longitude", "latitude", "price", "cluster"}

RawRow(name, cluster, price, land, beds, lat) ==
    [c \in Columns |->
        CASE c = "name" -> name
          [] c = "url" -> <<"u">>
          [] c = "bedrooms" -> beds
          [] c = "bathrooms" -> beds
          [] c = "floors" -> <<"1">>
          [] c = "land_area" -> land
          [] c = "building_area" -> land
          [] c = "longitude" -> lat
          [] c = "latitude" -> lat
          [] c = "price" -> price
          [] c = "cluster" -> cluster]

SeqsUpTo(S, n) == UNION {[1..k -> S] : k \in 0..n}

----------------------------------------------------------------------------
(* ClusterAnalysisPage: src/app/cluster-analysis/page.tsx and part_001 *)

AnalysisPages == {"cluster-analysis/page.tsx", "part_001"}

\* const clusters = [0, 1, 2]  /  const clusters = [1, 2, 3, 4]
clusters(page) ==
    IF page = "cluster-analysis/page.tsx" THEN <<0, 1, 2>> ELSE <<1, 2, 3, 4>>

CLUSTER_COLORS(page) ==
    IF page = "cluster-analysis/page.tsx"
    THEN (0 :> "#ef4444") @@ (1 :> "#3b82f6") @@ (2 :> "#10b981")
    ELSE (1 :> "#ef4444") @@ (2 :> "#3b82f6") @@ (3 :> "#10b981") @@ (4 :> "#f59e0b")

FallbackColor == "#6b7280"

\* Papa.parse dynamicTyping: booleans and numbers are converted, an empty
\* cell becomes null, any other text stays a string.
DynamicTyping(text) ==
    IF text \in {<<"t", "r", "u", "e">>, <<"T", "R", "U", "E">>} THEN Bool(TRUE)
    ELSE IF text \in {<<"f", "a", "l", "s", "e">>, <<"F", "A", "L", "S", "E">>}
    THEN Bool(FALSE)
    ELSE IF WholeNumber(text) /\ ~NumericPrefix(text).plus THEN ParseFloat(text)
    ELSE IF text = <<>> THEN Null
    ELSE Str(text)

\* Papa.parse(csv, {header: true, dynamicTyping: true}).data
AnalysisParse(file) ==
    [i \in 1..Len(file.rows) |->
        [c \in Columns |->
            IF c \in file.header THEN DynamicTyping(file.rows[i][c]) ELSE Undefined]]

RECURSIVE SumSeq(_)
SumSeq(s) == IF s = <<>> THEN 0 ELSE Head(s) + SumSeq(Tail(s))

\* A quotient num/den kept exact.
Rat(num, den) == [num |-> num, den |-> den]
RatEq(a, b) == a.num * b.den = b.num * a.den

\* d.cluster === c
InCluster(d, c) == StrictEq(d["cluster"], Num(c))

clusterCountsDouble(dt, cl) ==
    [i \in 1..Len(cl) |->
        Len(SelectSeq(dt, LAMBDA d: GreaterEq(d["cluster"], Num(cl[i]))))]

clusterCounts(dt, cl) ==
    [i \in 1..Len(cl) |-> Len(SelectSeq(dt, LAMBDA d: InCluster(d, cl[i])))]

\* data.filter(d => d.cluster === c).map(d => Number(d[field])).filter(v => !isNaN(v))
\* then arr.length ? arr.reduce((a, b) => a + b, 0) / arr.length : 0
ClusterMean(dt, c, field) ==
    LET group == SelectSeq(dt, LAMBDA d: InCluster(d, c))
        mapped == [i \in 1..Len(group) |-> Number(group[i][field])]
        arr == SelectSeq(mapped, LAMBDA v: ~IsNaN(v))
    IN IF Len(arr) # 0
       THEN Rat(SumSeq([i \in 1..Len(arr) |-> arr[i].n]), Len(arr))
       ELSE Rat(0, 1)

priceBar(dt, cl) == [i \in 1..Len(cl) |-> ClusterMean(dt, cl[i], "price")]
landBar(dt, cl) == [i \in 1..Len(cl) |-> ClusterMean(dt, cl[i], "land_area")]
buildingBar(dt, cl) == [i \in 1..Len(cl) |-> ClusterMean(dt, cl[i], "building_area")]
bedroomBar(dt, cl) == [i \in 1..Len(cl) |-> ClusterMean(dt, cl[i], "bedrooms")]
bathroomBar(dt, cl) == [i \in 1..Len(cl) |-> ClusterMean(dt, cl[i], "bathrooms")]

\* CLUSTER_COLORS[Number(cluster)] || "#6b7280"
AnalysisColor(colors, cluster) ==
    LET k == Number(cluster)
    IN IF IsNumber(k) /\ k.n \in DOMAIN colors THEN colors[k.n] ELSE FallbackColor

\* The scatter dataset: the points are filtered, the colour list is not.
scatterPriceLand(dt, colors) ==
    [data |->
        SelectSeq([i \in 1..Len(dt) |-> [x |-> Number(dt[i]["land_area"]),
                                          y |-> Number(dt[i]["price"]),
                                          cluster |-> dt[i]["cluster"]]],
                  LAMBDA p: ~IsNaN(p.x) /\ ~IsNaN(p.y)),
     backgroundColor |-> [i \in 1..Len(dt) |-> AnalysisColor(colors, dt[i]["cluster"])]]

NoCharts == [rendered |-> FALSE]

\* The render of the loaded page: every chart input is computed from data.
AnalysisRender(dt, page) ==
    [rendered |-> TRUE,
     clusterCounts |-> clusterCounts(dt, clusters(page)),
     priceBar |-> priceBar(dt, clusters(page)),
     landBar |-> landBar(dt, clusters(page)),
     buildingBar |-> buildingBar(dt, clusters(page)),
     bedroomBar |-> bedroomBar(dt, clusters(page)),
     bathroomBar |-> bathroomBar(dt, clusters(page)),
     scatter |-> scatterPriceLand(dt, CLUSTER_COLORS(page))]

\* Cell texts of /sample_properties.csv as the analysis page may find them.
AnalysisRows ==
    { RawRow(<<"A">>, <<"1">>, <<"1">>, <<"2">>, <<"1">>, <<"1">>),
      RawRow(<<"B">>, <<"1">>, <<"3">>, <<"x">>, <<"2">>, <<"2">>),
      RawRow(<<"C">>, <<"1">>, <<>>, <<"4">>, <<>>, <<"1">>),
      RawRow(<<"D">>, <<"0">>, <<"t", "r", "u", "e">>, <<"1">>, <<"3">>, <<"x">>),
      RawRow(<<"E">>, <<"7">>, <<"2">>, <<"3">>, <<"1">>, <<>>),
      RawRow(<<"F">>, <<"2">>, <<"2">>, <<"2">>, <<"2">>, <<"2">>),
      RawRow(<<"G">>, <<>>, <<"1">>, <<"1">>, <<"1">>, <<"1">>) }

AnalysisHeaders == {Columns, Columns \ {"price"}}

AnalysisFiles ==
    {[header |-> h, rows |-> r] :
        h \in AnalysisHeaders, r \in SeqsUpTo(AnalysisRows, MaxAnalysisRows)}

PageIdle ==
    /\ properties = <<>>
    /\ filteredProperties = <<>>
    /\ selectedProperty = Null
    /\ loading = TRUE
    /\ filters = [cluster |-> <<"a", "l", "l">>, minPrice |-> <<>>,
                  maxPrice |-> <<>>, minBedrooms |-> <<>>]
    /\ filterEffectPending = FALSE
    /\ loadPc = "idle"
    /\ loadFile = <<>>
    /\ crashed = FALSE

MapComponentIdle ==
    /\ mcMounted = FALSE
    /\ initPc = "idle"
    /\ map = 0
    /\ leaflet = FALSE
    /\ mapRef = 0
    /\ clusterGroupRef = <<>>
    /\ mapLayers = {}
    /\ markerEffectPending = FALSE
    /\ orphanInitPc = "idle"
    /\ orphanMap = FALSE

AnalysisInit ==
    /\ analysisPage \in AnalysisPages
    /\ data = <<>>
    /\ analysisLoading = TRUE
    /\ analysisPc = "fetching"
    /\ analysisFile = [header |-> Columns, rows |-> <<>>]
    /\ charts = NoCharts
    /\ PageIdle
    /\ MapComponentIdle

\* fetch(...).then(res => res.text()).then(csv => Papa.parse(csv, {complete}))
AnalysisLoad(file) ==
    /\ analysisPc = "fetching"
    /\ analysisFile' = file
    /\ data' = AnalysisParse(file)
    /\ analysisLoading' = FALSE
    /\ analysisPc' = "done"
    /\ charts' = AnalysisRender(data', analysisPage)
    /\ UNCHANGED <<analysisPage, pageVars, mcVars>>

\* The fetch rejects: the promise chain has no catch.
AnalysisFetchReject ==
    /\ analysisPc = "fetching"
    /\ analysisPc' = "failed"
    /\ UNCHANGED <<analysisPage, data, analysisLoading, analysisFile, charts, pageVars,
                   mcVars>>

AnalysisNext ==
    \/ \E file \in AnalysisFiles : AnalysisLoad(file)
    \/ AnalysisFetchReject

SpecAnalysis == AnalysisInit /\ [][AnalysisNext]_vars

\* The fetch started on mount settles: it resolves or it rejects.
LiveSpecAnalysis == SpecAnalysis /\ WF_vars(AnalysisNext)

----------------------------------------------------------------------------
(* RealEstateMap: src/app/page.tsx *)

NumericFields == {"bedrooms", "bathrooms", "floors", "land_area", "building_area",
                  "price", "cluster"}
CoordinateFields == {"longitude", "latitude"}

transformKeepNaN(value, field) ==
    IF field \in NumericFields THEN ParseFloat(value)
    ELSE IF field \in CoordinateFields THEN ParseFloat(value)
    ELSE Str(value)

\* The transform callback given to Papa.parse.
transform(value, field) ==
    IF field \in NumericFields THEN OrElse(ParseFloat(value), Num(0))
    ELSE IF field \in CoordinateFields THEN OrElse(ParseFloat(value), Num(0))
    ELSE Str(value)

\* Papa.parse(csvText, {header: true, transform}).data: a column the file
\* does not have is absent from every record.
parseCSV(file) ==
    [i \in 1..Len(file.rows) |->
        [c \in Columns |->
            IF c \in file.header THEN transform(file.rows[i][c], c) ELSE Undefined]]

AllText == <<"a", "l", "l">>
AnyText == <<"a", "n", "y">>

\* useState({cluster: "all", minPrice: "", maxPrice: "", minBedrooms: ""})
DefaultFilters ==
    [cluster |-> AllText, minPrice |-> <<>>, maxPrice |-> <<>>, minBedrooms |-> <<>>]

\* A text is truthy when it is not empty.
Truthy(text) == text # <<>>

applyFiltersExclusive(props, f) ==
    LET byCluster ==
            IF f.cluster # AllText
            THEN SelectSeq(props, LAMBDA p: StrictEq(p["cluster"], ParseInt(f.cluster)))
            ELSE props
        byMin ==
            IF Truthy(f.minPrice)
            THEN SelectSeq(byCluster,
                           LAMBDA p: GreaterEq(p["price"], ParseFloat(f.minPrice))
                                     /\ ~StrictEq(p["price"], ParseFloat(f.minPrice)))
            ELSE byCluster
        byMax ==
            IF Truthy(f.maxPrice)
            THEN SelectSeq(byMin, LAMBDA p: LessEq(p["price"], ParseFloat(f.maxPrice)))
            ELSE byMin
    IN IF Truthy(f.minBedrooms)
       THEN SelectSeq(byMax, LAMBDA p: GreaterEq(p["bedrooms"], ParseInt(f.minBedrooms)))
       ELSE byMax

applyFiltersUnguarded(props, f) ==
    LET byCluster ==
            IF f.cluster # AllText
            THEN SelectSeq(props, LAMBDA p: StrictEq(p["cluster"], ParseInt(f.cluster)))
            ELSE props
        byMin == SelectSeq(byCluster, LAMBDA p: GreaterEq(p["price"], ParseFloat(f.minPrice)))
        byMax ==
            IF Truthy(f.maxPrice)
            THEN SelectSeq(byMin, LAMBDA p: LessEq(p["price"], ParseFloat(f.maxPrice)))
            ELSE byMin
    IN IF Truthy(f.minBedrooms)
       THEN SelectSeq(byMax, LAMBDA p: GreaterEq(p["bedrooms"], ParseInt(f.minBedrooms)))
       ELSE byMax

applyFiltersReversed(props, f) ==
    LET reversed == [i \in 1..Len(props) |-> props[Len(props) + 1 - i]]
        byCluster ==
            IF f.cluster # AllText
            THEN SelectSeq(reversed, LAMBDA p: StrictEq(p["cluster"], ParseInt(f.cluster)))
            ELSE reversed
        byMin ==
            IF Truthy(f.minPrice)
            THEN SelectSeq(byCluster, LAMBDA p: GreaterEq(p["price"], ParseFloat(f.minPrice)))
            ELSE byCluster
        byMax ==
            IF Truthy(f.maxPrice)
            THEN SelectSeq(byMin, LAMBDA p: LessEq(p["price"], ParseFloat(f.maxPrice)))
            ELSE byMin
    IN IF Truthy(f.minBedrooms)
       THEN SelectSeq(byMax, LAMBDA p: GreaterEq(p["bedrooms"], ParseInt(f.minBedrooms)))
       ELSE byMax

\* applyFilters: the list handed to setFilteredProperties.
applyFilters(props, f) ==
    LET byCluster ==
            IF f.cluster # AllText
            THEN SelectSeq(props, LAMBDA p: StrictEq(p["cluster"], ParseInt(f.cluster)))
            ELSE props
        byMin ==
            IF Truthy(f.minPrice)
            THEN SelectSeq(byCluster, LAMBDA p: GreaterEq(p["price"], ParseFloat(f.minPrice)))
            ELSE byCluster
        byMax ==
            IF Truthy(f.maxPrice)
            THEN SelectSeq(byMin, LAMBDA p: LessEq(p["price"], ParseFloat(f.maxPrice)))
            ELSE byMin
    IN IF Truthy(f.minBedrooms)
       THEN SelectSeq(byMax, LAMBDA p: GreaterEq(p["bedrooms"], ParseInt(f.minBedrooms)))
       ELSE byMax

\* getClusterColor of the map page: colors[cluster] || "#6b7280"
getClusterColor(cluster) ==
    LET colors == (1 :> "#ef4444") @@ (2 :> "#3b82f6") @@ (3 :> "#10b981")
                  @@ (4 :> "#f59e0b")
    IN IF IsNumber(cluster) /\ cluster.n \in DOMAIN colors
       THEN colors[cluster.n]
       ELSE "#6b7280"

DepsChangedPropertiesOnly(propertiesSet, filtersSet) == propertiesSet

\* The dependency list [properties, filters] of the applyFilters effect: the
\* effect is scheduled by a render in which either was set to a new object.
DepsChanged(propertiesSet, filtersSet) == propertiesSet \/ filtersSet

\* What the selectors and inputs of the filter panel can emit.
ClusterChoices == {AllText, <<"1">>, <<"2">>}
MinPriceInputs == {<<>>, <<"2">>}
MaxPriceInputs == {<<>>, <<"1">>}
BedroomChoices == {AnyText, <<"1">>}

\* Cell texts of the CSV files given to the map page.
MapRows ==
    { RawRow(<<"A">>, <<"1">>, <<"1">>, <<"1">>, <<"1">>, <<"1">>),
      RawRow(<<"B">>, <<"2">>, <<"2">>, <<"2">>, <<"2">>, <<"2">>),
      RawRow(<<"A">>, <<"1">>, <<"2", "x">>, <<"x">>, <<>>, <<"x">>) }

\* Files with every column, and a one-row file without a latitude column.
MapFiles ==
    {[header |-> Columns, rows |-> r] : r \in SeqsUpTo(MapRows, MaxRows)}
    \cup {[header |-> Columns \ {"latitude"},
           rows |-> <<RawRow(<<"B">>, <<"2">>, <<"2">>, <<"2">>, <<"2">>, <<"2">>)>>]}

NoFile == [header |-> Columns, rows |-> <<>>]

----------------------------------------------------------------------------
(* SimpleMapComponent: src/unnamed/part_002 *)

NoGroup == <<>>

\* const isSelected = selectedProperty?.name === property.name
isSelected(selected, property) ==
    StrictEq(IF selected = Null THEN Undefined ELSE selected["name"], property["name"])

\* One marker of the marker effect: its record, colour and icon size.
Marker(property, selected) ==
    [property |-> property,
     color |-> getClusterColor(property["cluster"]),
     size |-> IF isSelected(selected, property) THEN 35 ELSE 25]

\* The first render of a fresh instance: state and refs are null, initMap
\* starts and waits for its imports, the mount effects are scheduled.
MapComponentMount ==
    /\ mcMounted' = TRUE
    /\ initPc' = "importing"
    /\ map' = 0
    /\ leaflet' = FALSE
    /\ mapRef' = 0
    /\ clusterGroupRef' = NoGroup
    /\ mapLayers' = {}
    /\ markerEffectPending' = TRUE
    /\ UNCHANGED <<orphanInitPc, orphanMap>>

\* The cleanup of the init effect, and the instance leaving the tree: the
\* cleanup removes the map held in mapRef.current and empties the container,
\* which then leaves the document.  An initMap that still awaits its imports
\* is not cancelled (one stands for all that are waiting); a map made by an
\* earlier one of them is not removed and loses its container.
MapComponentUnmount ==
    /\ mcMounted' = FALSE
    /\ initPc' = "idle"
    /\ map' = 0
    /\ leaflet' = FALSE
    /\ mapRef' = 0
    /\ clusterGroupRef' = NoGroup
    /\ mapLayers' = {}
    /\ markerEffectPending' = FALSE
    /\ orphanInitPc' = IF initPc = "importing" THEN "importing" ELSE orphanInitPc
    /\ orphanMap' = FALSE

\* A render of the page with the map component in the tree: getClusterColor
\* is a new function on every render, so the marker effect is scheduled.
MapComponentRerender ==
    /\ markerEffectPending' = mcMounted
    /\ UNCHANGED <<mcMounted, initPc, map, leaflet, mapRef, clusterGroupRef, mapLayers,
                   orphanInitPc, orphanMap>>

NoEffectPending == ~crashed /\ ~filterEffectPending /\ ~markerEffectPending

\* leaflet.marker([latitude, longitude]) throws "Invalid LatLng object" when
\* either coordinate is not a number.
ValidLatLng(property) ==
    IsNumber(Number(property["latitude"])) /\ IsNumber(Number(property["longitude"]))

\* initMap after its awaited imports: setLeaflet, then the map is created on
\* the element with id "map" and kept in state and in mapRef.
\* An initMap of an unmounted instance waits for the same imports and was
\* there first, so it continues first, in the same turn: its own
\* mapRef.current is null after the cleanup, so it removes nothing and creates
\* its map on the element with id "map", which now is the container of the
\* mounted instance.  The mounted instance's initMap then gets "Map container
\* is already initialized." from Leaflet, and its catch logs it.
InitMapFinish ==
    /\ mcMounted /\ initPc = "importing" /\ NoEffectPending
    /\ leaflet' = TRUE
    /\ markerEffectPending' = TRUE
    /\ orphanInitPc' = "idle"
    /\ IF orphanInitPc = "importing"
       THEN /\ orphanMap' = TRUE
            /\ initPc' = "failed"
            /\ UNCHANGED <<map, mapRef, mapLayers>>
       ELSE /\ initPc' = "done"
            /\ map' = 1
            /\ mapRef' = 1
            /\ mapLayers' = {}
            /\ UNCHANGED orphanMap
    /\ UNCHANGED <<mcMounted, clusterGroupRef, pageVars, analysisVars>>

\* An import rejects, for every initMap that waits for it: the catch logs
\* the error.
InitMapFail ==
    /\ mcMounted /\ initPc = "importing" /\ NoEffectPending
    /\ initPc' = "failed"
    /\ orphanInitPc' = "idle"
    /\ UNCHANGED <<mcMounted, map, leaflet, mapRef, clusterGroupRef, mapLayers,
                   markerEffectPending, orphanMap, pageVars, analysisVars>>

\* The imports settle while the loading view is up: the initMap of the
\* unmounted instance finds no element with id "map" ("Map container not
\* found.") or its import rejected; the catch logs the error.
OrphanInitMapFinish ==
    /\ ~mcMounted /\ orphanInitPc = "importing" /\ NoEffectPending
    /\ orphanInitPc' = "idle"
    /\ UNCHANGED <<mcMounted, initPc, map, leaflet, mapRef, clusterGroupRef, mapLayers,
                   markerEffectPending, orphanMap, pageVars, analysisVars>>

\* The marker effect, run with the props of the last render.  A marker that
\* cannot be created throws out of the effect after the previous group was
\* removed; no error boundary catches it, so React unmounts the tree (the
\* cleanup of the init effect removes the map).
MarkerEffect ==
    /\ mcMounted /\ markerEffectPending
    /\ IF map = 0 \/ ~leaflet \/ Len(filteredProperties) = 0
       THEN /\ markerEffectPending' = FALSE
            /\ UNCHANGED <<mcMounted, initPc, map, leaflet, mapRef, clusterGroupRef,
                           mapLayers, crashed, orphanInitPc, orphanMap>>
       ELSE IF \E i \in 1..Len(filteredProperties) : ~ValidLatLng(filteredProperties[i])
       THEN /\ crashed' = TRUE
            /\ MapComponentUnmount
       ELSE LET markerClusterGroup ==
                    [i \in 1..Len(filteredProperties) |->
                        Marker(filteredProperties[i], selectedProperty)]
            IN /\ mapLayers' = (mapLayers \ {clusterGroupRef}) \cup {markerClusterGroup}
               /\ clusterGroupRef' = markerClusterGroup
               /\ markerEffectPending' = FALSE
               /\ UNCHANGED <<mcMounted, initPc, map, leaflet, mapRef, crashed,
                              orphanInitPc, orphanMap>>
    /\ UNCHANGED <<properties, filteredProperties, selectedProperty, loading, filters,
                   filterEffectPending, loadPc, loadFile, analysisVars>>

----------------------------------------------------------------------------
(* The actions of the map page *)

Init ==
    /\ properties = <<>>
    /\ filteredProperties = <<>>
    /\ selectedProperty = Null
    /\ loading = TRUE
    /\ filters = DefaultFilters
    /\ filterEffectPending = TRUE
    /\ loadPc = "fetching"
    /\ loadFile = NoFile
    /\ crashed = FALSE
    /\ MapComponentIdle
    /\ analysisPage = "cluster-analysis/page.tsx"
    /\ data = <<>>
    /\ analysisLoading = TRUE
    /\ analysisPc = "idle"
    /\ analysisFile = NoFile
    /\ charts = NoCharts

\* useEffect(() => { applyFilters() }, [properties, filters])
ApplyFiltersEffect ==
    /\ ~crashed /\ filterEffectPending /\ ~markerEffectPending
    /\ filteredProperties' = applyFilters(properties, filters)
    /\ filterEffectPending' = FALSE
    /\ MapComponentRerender
    /\ UNCHANGED <<properties, selectedProperty, loading, filters, loadPc, loadFile,
                   crashed, analysisVars>>

\* parseCSV's complete callback, and the render that follows: the main view
\* replaces the loading view, so the map component mounts.
ParseComplete(file) ==
    /\ properties' = parseCSV(file)
    /\ loading' = FALSE
    /\ loadPc' = "idle"
    /\ loadFile' = file
    /\ filterEffectPending' = DepsChanged(TRUE, FALSE)
    /\ IF mcMounted THEN MapComponentRerender ELSE MapComponentMount
    /\ UNCHANGED <<filteredProperties, selectedProperty, filters, crashed, analysisVars>>

\* loadSampleData: the fetch resolves and its text is parsed.
SampleFetchResolve(file) ==
    /\ loadPc = "fetching" /\ NoEffectPending
    /\ ParseComplete(file)

\* loadSampleData: the fetch rejects, the catch clears loading.
SampleFetchReject ==
    /\ loadPc = "fetching" /\ NoEffectPending
    /\ loading' = FALSE
    /\ loadPc' = "failed"
    /\ filterEffectPending' = DepsChanged(FALSE, FALSE)
    /\ IF mcMounted THEN MapComponentRerender ELSE MapComponentMount
    /\ UNCHANGED <<properties, filteredProperties, selectedProperty, filters, loadFile,
                   crashed, analysisVars>>

handleFileUploadKeepsView ==
    /\ ~loading /\ NoEffectPending
    /\ loadPc' = "reading"
    /\ MapComponentRerender
    /\ UNCHANGED <<properties, filteredProperties, selectedProperty, loading, filters,
                   filterEffectPending, loadFile, crashed, analysisVars>>

\* handleFileUpload with a file chosen: the loading view replaces the main
\* view, so the map component unmounts, and the reader starts.  The file
\* input is part of the main view, which is rendered when loading is false.
handleFileUpload ==
    /\ ~loading /\ NoEffectPending
    /\ loading' = TRUE
    /\ loadPc' = "reading"
    /\ MapComponentUnmount
    /\ UNCHANGED <<properties, filteredProperties, selectedProperty, filters,
                   filterEffectPending, loadFile, crashed, analysisVars>>

\* reader.onload: the text of the chosen file is parsed.
ReaderLoad(file) ==
    /\ loadPc = "reading" /\ NoEffectPending
    /\ ParseComplete(file)

ParseErrorInstalls ==
    /\ loadPc \in {"fetching", "reading"} /\ NoEffectPending
    /\ \E file \in MapFiles : properties' = parseCSV(file)
    /\ loading' = FALSE
    /\ loadPc' = "failed"
    /\ filterEffectPending' = DepsChanged(TRUE, FALSE)
    /\ IF mcMounted THEN MapComponentRerender ELSE MapComponentMount
    /\ UNCHANGED <<filteredProperties, selectedProperty, filters, loadFile, crashed,
                   analysisVars>>

\* parseCSV's error callback (after the fetch, or after reader.onload): the
\* error is logged and loading is cleared.
ParseError ==
    /\ loadPc \in {"fetching", "reading"} /\ NoEffectPending
    /\ loading' = FALSE
    /\ loadPc' = "failed"
    /\ filterEffectPending' = DepsChanged(FALSE, FALSE)
    /\ IF mcMounted THEN MapComponentRerender ELSE MapComponentMount
    /\ UNCHANGED <<properties, filteredProperties, selectedProperty, filters, loadFile,
                   crashed, analysisVars>>

\* The reader fails to read the file: no onerror handler is installed, so
\* nothing runs and the load stays where it is.
ReaderError ==
    /\ loadPc = "reading" /\ NoEffectPending
    /\ loadPc' = "unread"
    /\ UNCHANGED <<properties, filteredProperties, selectedProperty, loading, filters,
                   filterEffectPending, loadFile, crashed, mcVars, analysisVars>>

SetFilterResetsOthers(field, value) ==
    /\ ~loading /\ NoEffectPending
    /\ filters' = [DefaultFilters EXCEPT ![field] = value]
    /\ filterEffectPending' = DepsChanged(FALSE, TRUE)
    /\ MapComponentRerender
    /\ UNCHANGED <<properties, filteredProperties, selectedProperty, loading, loadPc,
                   loadFile, crashed, analysisVars>>

\* setFilters((prev) => ({ ...prev, [field]: value }))
SetFilter(field, value) ==
    /\ ~loading /\ NoEffectPending
    /\ filters' = [filters EXCEPT ![field] = value]
    /\ filterEffectPending' = DepsChanged(FALSE, TRUE)
    /\ MapComponentRerender
    /\ UNCHANGED <<properties, filteredProperties, selectedProperty, loading, loadPc,
                   loadFile, crashed, analysisVars>>

resetFiltersKeepsCluster ==
    /\ ~loading /\ NoEffectPending
    /\ filters' = [DefaultFilters EXCEPT !.cluster = filters.cluster]
    /\ filterEffectPending' = DepsChanged(FALSE, TRUE)
    /\ MapComponentRerender
    /\ UNCHANGED <<properties, filteredProperties, selectedProperty, loading, loadPc,
                   loadFile, crashed, analysisVars>>

resetFilters ==
    /\ ~loading /\ NoEffectPending
    /\ filters' = DefaultFilters
    /\ filterEffectPending' = DepsChanged(FALSE, TRUE)
    /\ MapComponentRerender
    /\ UNCHANGED <<properties, filteredProperties, selectedProperty, loading, loadPc,
                   loadFile, crashed, analysisVars>>

\* A click on a marker that is on the map: onPropertySelect(property)
MarkerClick ==
    /\ ~loading /\ mcMounted /\ NoEffectPending
    /\ \E g \in mapLayers : \E i \in 1..Len(g) :
           /\ selectedProperty # g[i].property
           /\ selectedProperty' = g[i].property
    /\ MapComponentRerender
    /\ UNCHANGED <<properties, filteredProperties, loading, filters, filterEffectPending,
                   loadPc, loadFile, crashed, analysisVars>>

Next ==
    \/ ApplyFiltersEffect
    \/ MarkerEffect
    \/ InitMapFinish
    \/ InitMapFail
    \/ OrphanInitMapFinish
    \/ \E file \in MapFiles : SampleFetchResolve(file)
    \/ SampleFetchReject
    \/ handleFileUpload
    \/ \E file \in MapFiles : ReaderLoad(file)
    \/ ParseError
    \/ ReaderError
    \/ \E v \in ClusterChoices : SetFilter("cluster", v)
    \/ \E v \in MinPriceInputs : SetFilter("minPrice", v)
    \/ \E v \in MaxPriceInputs : SetFilter("maxPrice", v)
    \/ \E v \in BedroomChoices : SetFilter("minBedrooms", v)
    \/ resetFilters
    \/ MarkerClick

Spec == Init /\ [][Next]_vars

----------------------------------------------------------------------------
(* Claims about the analysis page *)

AnalysisDone == analysisPc = "done" /\ charts.rendered

\* The value is a number (not NaN, not null, not text, not a boolean).
ValidNumber(v) == v.t = "number"

MeanFields == {"price", "land_area", "building_area", "bedrooms", "bathrooms"}

ChartedMean(field) ==
    CASE field = "price" -> charts.priceBar
      [] field = "land_area" -> charts.landBar
      [] field = "building_area" -> charts.buildingBar
      [] field = "bedrooms" -> charts.bedroomBar
      [] field = "bathrooms" -> charts.bathroomBar

\* The positions of the records of data whose cluster is the number c.
RecordsOfCluster(c) ==
    {i \in 1..Len(data) : data[i]["cluster"].t = "number" /\ data[i]["cluster"].n = c}

\* Among them, those whose field holds a number.
ValidRecords(c, field) ==
    {i \in RecordsOfCluster(c) : ValidNumber(data[i][field])}

RECURSIVE SumField(_, _)
SumField(S, field) ==
    IF S = {} THEN 0
    ELSE LET i == CHOOSE x \in S : TRUE
         IN data[i][field].n + SumField(S \ {i}, field)

SeqRange(s) == {s[i] : i \in 1..Len(s)}

\* C6: a charted cluster id with no matching record has count 0, and a
\* charted cluster id with no valid value of a field (no matching record, or
\* none whose field is a number) has mean exactly 0 for that field.
C6_EmptyGroupMean ==
    AnalysisDone =>
        \A k \in 1..Len(clusters(analysisPage)) :
            LET c == clusters(analysisPage)[k]
            IN /\ RecordsOfCluster(c) = {} => charts.clusterCounts[k] = 0
               /\ \A f \in MeanFields :
                      ValidRecords(c, f) = {} =>
                          /\ ChartedMean(f)[k].num = 0
                          /\ ChartedMean(f)[k].den >= 1

\* C7: the charted mean of a field is the sum of the field over the records
\* of the cluster whose field is a number, divided by how many they are.
C7_MeanCorrectness ==
    AnalysisDone =>
        \A k \in 1..Len(clusters(analysisPage)) : \A f \in MeanFields :
            LET c == clusters(analysisPage)[k]
                valid == ValidRecords(c, f)
            IN valid # {} =>
                   RatEq(ChartedMean(f)[k], Rat(SumField(valid, f), Cardinality(valid)))

\* Every record's cluster is one of the charted ids.
ClustersCovered ==
    \A i \in 1..Len(data) :
        /\ data[i]["cluster"].t = "number"
        /\ data[i]["cluster"].n \in SeqRange(clusters(analysisPage))

\* C8: when the charted ids cover every cluster value of the records, the
\* counts add up to the number of records and each record is counted in
\* exactly one cluster.
C8_AggregateTotals ==
    (AnalysisDone /\ ClustersCovered) =>
        /\ SumSeq(charts.clusterCounts) = Len(data)
        /\ \A k \in 1..Len(clusters(analysisPage)) :
               charts.clusterCounts[k] =
                   Cardinality(RecordsOfCluster(clusters(analysisPage)[k]))
        /\ \A i \in 1..Len(data) :
               Cardinality({k \in 1..Len(clusters(analysisPage)) :
                               i \in RecordsOfCluster(clusters(analysisPage)[k])}) = 1

C8_Witness ==
    /\ AnalysisDone
    /\ ClustersCovered
    /\ Len(data) >= 2
    /\ \E i, j \in 1..Len(data) : data[i]["cluster"].n # data[j]["cluster"].n

\* The positions of the records with a number in both land_area and price,
\* in record order.
ScatterSources ==
    SelectSeq([i \in 1..Len(data) |-> i],
              LAMBDA i : ValidNumber(data[i]["land_area"]) /\ ValidNumber(data[i]["price"]))

ExpectedColor(v) ==
    IF v.t = "number" /\ v.n \in DOMAIN CLUSTER_COLORS(analysisPage)
    THEN CLUSTER_COLORS(analysisPage)[v.n]
    ELSE "#6b7280"

\* C9: the scatter series has one point per record with a number in both
\* land_area and price, in record order, and colour i is the colour of the
\* cluster of the record that produced point i.
C9_ScatterColourAlignment ==
    AnalysisDone =>
        LET pts == charts.scatter.data
            cols == charts.scatter.backgroundColor
        IN /\ Len(pts) = Len(ScatterSources)
           /\ \A j \in 1..Len(ScatterSources) :
                  LET d == data[ScatterSources[j]]
                  IN /\ pts[j].x = d["land_area"]
                     /\ pts[j].y = d["price"]
                     /\ j <= Len(cols)
                     /\ cols[j] = ExpectedColor(d["cluster"])

----------------------------------------------------------------------------
(* Claims about the map page *)

\* The number a filter text stands for: the text read as a whole.
TextNumber(text) == Number(Str(text))

ClusterCriterion(p, f) ==
    /\ p["cluster"].t = "number"
    /\ TextNumber(f.cluster).t = "number"
    /\ p["cluster"].n = TextNumber(f.cluster).n

AtLeast(v, text) ==
    /\ v.t = "number"
    /\ TextNumber(text).t = "number"
    /\ v.n >= TextNumber(text).n

AtMost(v, text) ==
    /\ v.t = "number"
    /\ TextNumber(text).t = "number"
    /\ v.n <= TextNumber(text).n

\* The record satisfies every criterion that is set.
SatisfiesEveryCriterion(p, f) ==
    /\ f.cluster # <<"a", "l", "l">> => ClusterCriterion(p, f)
    /\ f.minPrice # <<>> => AtLeast(p["price"], f.minPrice)
    /\ f.maxPrice # <<>> => AtMost(p["price"], f.maxPrice)
    /\ f.minBedrooms # <<>> => AtLeast(p["bedrooms"], f.minBedrooms)

\* C1: once the filter effect has run, a record of properties is in
\* filteredProperties if and only if it satisfies every criterion that is
\* set, the price and bedroom bounds being inclusive.
C1_FilterConjunctive ==
    ~filterEffectPending =>
        /\ \A i \in 1..Len(properties) :
               properties[i] \in SeqRange(filteredProperties)
                   <=> SatisfiesEveryCriterion(properties[i], filters)
        /\ SeqRange(filteredProperties) \subseteq SeqRange(properties)

C1_Witness ==
    /\ ~filterEffectPending
    /\ filters.cluster = <<"1">>
    /\ filters.minPrice = <<"2">>
    /\ \E i \in 1..Len(properties) :
           /\ properties[i]["price"] = Num(2)
           /\ properties[i] \in SeqRange(filteredProperties)
    /\ \E i \in 1..Len(properties) : properties[i] \notin SeqRange(filteredProperties)

\* The text is set and is not a number.
NonNumericText(text) == text # <<>> /\ ~WholeNumber(text)

\* C2: a bound holding a non-numeric text is inactive: the filtered list is
\* the one the same filters give with that bound unset.
C2_NonNumericInactive ==
    ~filterEffectPending =>
        \A field \in {"minPrice", "maxPrice", "minBedrooms"} :
            NonNumericText(filters[field]) =>
                filteredProperties =
                    applyFilters(properties, [filters EXCEPT ![field] = <<>>])

\* C3: with the default filters the filtered list is the record list itself.
C3_FilterIdentity ==
    (/\ ~filterEffectPending
     /\ filters.cluster = <<"a", "l", "l">>
     /\ filters.minPrice = <<>>
     /\ filters.maxPrice = <<>>
     /\ filters.minBedrooms = <<>>) => filteredProperties = properties

C3_Witness ==
    /\ ~filterEffectPending
    /\ ~loading
    /\ filters = DefaultFilters
    /\ Len(properties) >= 2
    /\ filteredProperties = properties

\* The records of the markers that are on the map.
MapReady == mcMounted /\ map # 0 /\ leaflet

\* C4: once the marker effect has run, the map holds one marker per record
\* of the list it was given and no other marker.
C4_MarkersMatchProperties ==
    (MapReady /\ ~markerEffectPending) =>
        IF filteredProperties = <<>>
        THEN mapLayers = {}
        ELSE \E g \in mapLayers :
                 /\ mapLayers = {g}
                 /\ [i \in 1..Len(g) |-> g[i].property] = filteredProperties

\* C5: when no filter effect is pending, filteredProperties is the result of
\* the current filters on the current properties.
C5_FilterFreshness ==
    ~filterEffectPending => filteredProperties = applyFilters(properties, filters)

C5_Witness ==
    /\ ~filterEffectPending
    /\ ~loading
    /\ filters # DefaultFilters
    /\ filteredProperties # <<>>
    /\ filteredProperties # properties

\* The records in properties are those of the file last parsed.
Loaded == loadPc = "idle"

NumericColumns == {"bedrooms", "bathrooms", "floors", "land_area", "building_area",
                   "price", "cluster", "longitude", "latitude"}

\* C10 as stated: a numeric cell that is a number is ingested as that
\* number and any other numeric cell as 0; text cells are unchanged; no
\* numeric field is NaN.
C10_IngestionDefault ==
    Loaded =>
        /\ Len(properties) = Len(loadFile.rows)
        /\ \A i \in 1..Len(properties) : \A c \in loadFile.header :
               LET cell == loadFile.rows[i][c]
               IN IF c \in NumericColumns
                  THEN properties[i][c] =
                           (IF WholeNumber(cell) THEN Num(NumericPrefix(cell).n) ELSE Num(0))
                  ELSE properties[i][c] = Str(cell)

\* C10 amended: a numeric cell is ingested as the number of its leading
\* numeric prefix, and as 0 when it has none; text cells are unchanged; no
\* ingested field is NaN.
C10_IngestionPrefix ==
    Loaded =>
        /\ Len(properties) = Len(loadFile.rows)
        /\ \A i \in 1..Len(properties) : \A c \in loadFile.header :
               LET cell == loadFile.rows[i][c]
               IN /\ properties[i][c].t # "NaN"
                  /\ IF c \in NumericColumns
                     THEN properties[i][c] =
                              (IF NumericPrefix(cell).ok
                               THEN Num(NumericPrefix(cell).n) ELSE Num(0))
                     ELSE properties[i][c] = Str(cell)

C10_Witness ==
    /\ Loaded
    /\ \E i \in 1..Len(properties) :
           /\ loadFile.rows[i]["price"] = <<"2", "x">>
           /\ properties[i]["price"] = Num(2)
           /\ loadFile.rows[i]["land_area"] = <<"x">>
           /\ properties[i]["land_area"] = Num(0)
           /\ properties[i]["name"] = Str(<<"A">>)

\* The load that ended last ended in a failure.
LoadFailed == loadPc = "failed"

\* C11: a load that fails (the fetch rejects, or the parser calls its error
\* callback) leaves properties and filteredProperties as they were; the
\* initial load failing leaves both empty, so the map that mounts is given an
\* empty list.
C11_FailedLoadInstallsNothing ==
    [][LoadFailed' /\ ~LoadFailed =>
          /\ properties' = properties
          /\ filteredProperties' = filteredProperties
          /\ ~filterEffectPending'
          /\ loadPc = "fetching" =>
                 (properties' = <<>> /\ filteredProperties' = <<>> /\ mcMounted')]_vars

\* A failed upload after a successful load: the earlier records stay.
C11_Witness ==
    /\ LoadFailed
    /\ ~loading
    /\ properties # <<>>
    /\ properties = parseCSV(loadFile)
    /\ filteredProperties # <<>>

\* a is a sub-list of b: the elements of a are elements of b, in b's order.
RECURSIVE IsSubList(_, _)
IsSubList(a, b) ==
    IF a = <<>> THEN TRUE
    ELSE IF b = <<>> THEN FALSE
    ELSE IF Head(a) = Head(b) THEN IsSubList(Tail(a), Tail(b))
    ELSE IsSubList(a, Tail(b))

\* Bound texts and cluster ids a filter field can be tightened to.
BoundTexts == {<<"1">>, <<"2">>, <<"3">>}

\* Replacing the text old of the field by the text new tightens the filter:
\* a bound that was unset is set, a lower bound is raised, an upper bound is
\* lowered, the cluster goes from "all" to an id.
Tightens(field, old, new) ==
    CASE field = "cluster" -> old = <<"a", "l", "l">>
      [] field = "maxPrice" ->
            old = <<>> \/ (WholeNumber(old) /\ TextNumber(new).n <= TextNumber(old).n)
      [] OTHER ->
            old = <<>> \/ (WholeNumber(old) /\ TextNumber(new).n >= TextNumber(old).n)

C13_FilterOrderNonMutation ==
    /\ [](~filterEffectPending => IsSubList(filteredProperties, properties))
    /\ [][(filterEffectPending /\ ~filterEffectPending') =>
              /\ properties' = properties
              /\ filteredProperties' = applyFilters(properties', filters')
              /\ IsSubList(filteredProperties', properties)]_vars

\* Two different records kept, in the order of the input, by a filter that
\* is not the default one.
C13_Witness ==
    /\ ~filterEffectPending
    /\ filters.cluster = <<"1">>
    /\ Len(properties) = 2
    /\ properties[1] # properties[2]
    /\ filteredProperties = properties

\* The value is present and is a number.
PresentNumber(v) == v.t = "number"

\* C14: every record the page hands to the mounted map component, from which
\* the marker effect creates markers, has a latitude and a longitude that
\* are present and are numbers.
C14_MapEligibility ==
    mcMounted =>
        \A i \in 1..Len(filteredProperties) :
            /\ PresentNumber(filteredProperties[i]["latitude"])
            /\ PresentNumber(filteredProperties[i]["longitude"])

\* C15: the colour looked up for a record's cluster value is the colour the
\* mapping has for it when the value is one of its keys, and "#6b7280" for
\* any other value; it is never empty.
C15_ColourLookupTotal ==
    AnalysisDone =>
        \A i \in 1..Len(data) :
            LET colour == charts.scatter.backgroundColor[i]
            IN /\ colour # ""
               /\ colour = ExpectedColor(data[i]["cluster"])

\* C16: resetFilters, from any filter state, sets the four fields to their
\* defaults, leaves properties unchanged and schedules the filter effect;
\* the filter effect run with the default filters makes filteredProperties
\* equal to properties.
C16_FilterReset ==
    /\ [][resetFilters =>
              /\ filters'.cluster = <<"a", "l", "l">>
              /\ filters'.minPrice = <<>>
              /\ filters'.maxPrice = <<>>
              /\ filters'.minBedrooms = <<>>
              /\ properties' = properties
              /\ filterEffectPending']_vars
    /\ [][(filterEffectPending /\ ~filterEffectPending'
              /\ filters = [cluster |-> <<"a", "l", "l">>, minPrice |-> <<>>,
                            maxPrice |-> <<>>, minBedrooms |-> <<>>]) =>
              filteredProperties' = properties']_vars

\* The filters were put back to their defaults on a map that is up, while
\* the list still is the empty one the previous filters gave.
C16_Witness ==
    /\ filters = DefaultFilters
    /\ filterEffectPending
    /\ map # 0
    /\ properties # <<>>
    /\ filteredProperties = <<>>

FilterFields == {"cluster", "minPrice", "maxPrice", "minBedrooms"}

\* What the control of a filter field can emit.
FieldTexts(field) ==
    CASE field = "cluster" -> ClusterChoices
      [] field = "minPrice" -> MinPriceInputs
      [] field = "maxPrice" -> MaxPriceInputs
      [] field = "minBedrooms" -> BedroomChoices

\* C17: a change of the cluster selector, the minimum price, the maximum
\* price or the minimum bedrooms gives a filter state equal to the previous
\* one in every other field, holding the emitted text in its own field, and
\* leaves properties and selectedProperty unchanged; a step that changes the
\* filters and is not a reset changes exactly one field.
C17_SingleFieldChange ==
    /\ [][\A field \in FilterFields : \A v \in FieldTexts(field) :
              SetFilter(field, v) =>
                  /\ filters'[field] = v
                  /\ \A g \in FilterFields \ {field} : filters'[g] = filters[g]
                  /\ properties' = properties
                  /\ selectedProperty' = selectedProperty]_vars
    /\ [][(filters' # filters /\ ~resetFilters) =>
              /\ Cardinality({g \in FilterFields : filters'[g] # filters[g]}) = 1
              /\ properties' = properties
              /\ selectedProperty' = selectedProperty]_vars

\* A second field was just changed while a record is selected: the first
\* field and the selection are still there.
C17_Witness ==
    /\ filterEffectPending
    /\ filters.cluster = <<"1">>
    /\ filters.minBedrooms = <<"1">>
    /\ filters.minPrice = <<>>
    /\ filters.maxPrice = <<>>
    /\ selectedProperty # Null
    /\ properties # <<>>

\* The cell of numeric column c in row i of the file the analysis page read.
AnalysisCell(i, c) == analysisFile.rows[i][c]

\* The records the map page's parseCSV makes of the same file.
MapPageRecords == parseCSV(analysisFile)

\* C18: of the same file, a numeric cell that is no number is 0 in the map
\* page's record and a non-number in the analysis page's record, which the
\* charted mean of its cluster leaves out; and a row whose numeric cells are
\* all numbers gives the same record on both pages.
C18_IngestionPathsDisagree ==
    AnalysisDone =>
        \A i \in 1..Len(data) :
            /\ \A c \in NumericColumns \cap analysisFile.header :
                   ~WholeNumber(AnalysisCell(i, c)) =>
                       /\ MapPageRecords[i][c] = Num(0)
                       /\ ~ValidNumber(data[i][c])
                       /\ \A k \in 1..Len(clusters(analysisPage)) :
                              (/\ c \in MeanFields
                               /\ i \in RecordsOfCluster(clusters(analysisPage)[k])) =>
                                  LET others == ValidRecords(clusters(analysisPage)[k], c)
                                  IN RatEq(ChartedMean(c)[k],
                                           IF others = {} THEN Rat(0, 1)
                                           ELSE Rat(SumField(others, c), Cardinality(others)))
            /\ (\A c \in NumericColumns \cap analysisFile.header :
                    WholeNumber(AnalysisCell(i, c))) =>
                   \A c \in analysisFile.header : MapPageRecords[i][c] = data[i][c]

\* C19: a load that was started ends with loading set to false, whether it
\* succeeds or fails; here for the fetch the analysis page starts on mount.
C19_LoadTermination ==
    (analysisPc = "fetching") ~> (analysisLoading = FALSE)

\* C20: once the filter effect has run, the selected record, which the
\* detail panel shows, is null or one of the records of filteredProperties.
C20_SelectionWithinDisplayed ==
    (~loading /\ ~filterEffectPending) =>
        \/ selectedProperty = Null
        \/ selectedProperty \in SeqRange(filteredProperties)

\* A load is in flight: the fetch or the reader has not settled yet.
LoadInFlight == loadPc \in {"fetching", "reading"}

\* C21: while a load is in flight loading is true, a load is started only
\* when none is in flight (so at most one ingestion is in progress), and once
\* loading is false properties holds the records of the last file whose
\* load completed.
C21_LoadsSerialised ==
    /\ [](LoadInFlight => loading)
    /\ [][(loadPc' = "reading" /\ loadPc # "reading") =>
              (~loading /\ ~LoadInFlight /\ loading')]_vars
    /\ [](~loading => properties = parseCSV(loadFile))

\* A second load completed: the list is the uploaded file's, and the
\* selection still is a record of the file loaded before.
C21_Witness ==
    /\ ~loading /\ ~LoadInFlight
    /\ properties # <<>>
    /\ properties = parseCSV(loadFile)
    /\ selectedProperty # Null
    /\ selectedProperty \notin SeqRange(properties)

\* The map instances on the element with id "map".
LiveMapInstances ==
    (IF map # 0 \/ mapRef # 0 THEN 1 ELSE 0) + (IF orphanMap THEN 1 ELSE 0)

\* C22: no map is there that an initMap created after the cleanup of its
\* instance ran; once the component is unmounted and no initMap is waiting,
\* mapRef.current is null and no map instance is there; and at most one map
\* instance is there at any time.
C22_NoMapOutlivesComponent ==
    /\ ~orphanMap
    /\ (~mcMounted /\ initPc # "importing" /\ orphanInitPc # "importing") =>
           (mapRef = 0 /\ LiveMapInstances = 0)
    /\ LiveMapInstances <= 1

\* The marker effect has run to its end with the props of the last render.
MarkersCurrent ==
    MapReady /\ ~markerEffectPending /\ ~filterEffectPending /\ filteredProperties # <<>>

\* C23: among the markers the marker effect created, a marker has the
\* selected size 35 if and only if its record is selectedProperty, so the
\* highlighted markers are markers of one record.
C23_SelectedMarkerUnique ==
    MarkersCurrent =>
        LET g == clusterGroupRef
            highlighted == {i \in 1..Len(g) : g[i].size = 35}
        IN /\ \A i \in 1..Len(g) : i \in highlighted <=> g[i].property = selectedProperty
           /\ Cardinality({g[i].property : i \in highlighted}) <= 1

\* The cluster ids the analysis page charts or finds in its records.
ShownClusterIds ==
    SeqRange(clusters(analysisPage))
        \cup {data[i]["cluster"].n : i \in {j \in 1..Len(data) : IsNumber(data[j]["cluster"])}}

\* C24: for every cluster id the analysis page shows, the colour it uses
\* (CLUSTER_COLORS with its fallback, in the charts and in the props of its
\* map) is the colour the map page's getClusterColor returns for that id.
C24_MapChartColourAgreement ==
    AnalysisDone =>
        /\ \A c \in ShownClusterIds :
               AnalysisColor(CLUSTER_COLORS(analysisPage), Num(c)) = getClusterColor(Num(c))
        /\ \A i \in 1..Len(data) :
               IsNumber(data[i]["cluster"]) =>
                   charts.scatter.backgroundColor[i] = getClusterColor(data[i]["cluster"])

====
